---- MODULE Spec2Model ----
(***************************************************************************)
(* Posture detector and transition dispatcher of AdvancedGamepadReader    *)
(* (src/gooblebox.py).                                                     *)
(*                                                                         *)
(* Units.  Side means are integers in units of 1e-4 (-0.925 is -9250), so  *)
(* that the thresholds of the source are exact: range 1500, near-zero      *)
(* threshold 1500 * 5 / 100 = 75, fifty-percent threshold -9250.  The      *)
(* input levels are chosen where the float comparisons of the source and   *)
(* the exact comparisons agree.  Time is counted in units of 10 ms, the     *)
(* shortest duration of the source (the sleep of the read loop): 0.5 s is  *)
(* 50, 1.0 s is 100 and a 50 Hz sample period is 2.  The clock time.time()  *)
(* is positive.                                                            *)
(***************************************************************************)
EXTENDS Integers, Sequences, FiniteSets, TLC

\* ---------------------------------------------------------------- bounds
\* The clock bounds count steps of ClockStep.
\* last clock value a sample may be taken at
MaxTime == 7
\* largest clock advance between two consecutive samples
MaxDt == 2
\* largest clock advance between the two time.time() reads of one sample
MaxLag == 1
MaxSamples == 30
\* last clock value of a frequently sampled run, in steps of AbsenceMargin
MaxFrequentTime == 3

\* ------------------------------------------------------- configuration
walking_hold_time == 50
flamingo_hold_time == 50
jump_display_time == 100
user_absent_time == 100
\* jump_absence_threshold_percent = 0.05, in hundredths
jump_absence_threshold_percent == 5
\* min_val = -1.0 and max_val = -0.85, in units of 1e-4
min_val == -10000
max_val == -8500

\* side means fed to update_status: near-zero (and so below 50%), exactly
\* the 50% threshold, above 50%
Levels == {-9990, -9250, -8800}

\* Where the samples are not driven at a fixed rate, the clock advances in
\* steps of 0.5 s, the shortest hold time.
ClockStep == walking_hold_time

Statuses == {"Standing", "Walking", "Flamingo-ing", "Jump!", "User Absent"}

Abs(x) == IF x < 0 THEN -x ELSE x

VARIABLES
    \* fields of AdvancedGamepadReader
    current_status, previous_status, status_start_time,
    last_walking_pattern_time, last_detected_side,
    one_foot_start_time, both_sides_zero_start_time, pre_jump_status,
    \* the clock: the value of the latest time.time() read
    now,
    \* the latest sample and what each stage of determine_status made of it
    left_avg, right_avg, current_time,
    jump_absence_status, flamingo_status, new_status,
    \* the callbacks update_status invoked on the latest sample, in order
    calls,
    \* history of the input: first sample of the current run of one-foot
    \* samples, first sample of the current run of near-zero samples, and the
    \* latest tick whose side differed from the recorded side (0: none)
    one_foot_run_start, near_zero_run_start, last_alternation_time,
    \* the constructor's output_type argument, and the fields __init__ derives:
    \* output_type, jump_button, whether a VX360Gamepad exists (gamepad) and
    \* whether the attribute keyboard_jump_map was created
    output_type_arg, output_type, jump_button, gamepad, keyboard_jump_map,
    \* the synthetic inputs: keys pyautogui holds down, and the two sticks of
    \* the virtual gamepad as last reported by update()
    keys_down, left_joystick, right_joystick,
    \* the backend operations performed on the latest sample, in order; an
    \* exception that ended them is the last entry
    effects,
    \* read_gamepad: the axis vector, the length, type and number of the
    \* latest record read (NoEvent: nothing read), and the state of the loop
    \* ("created", "running", "interrupted", "failed")
    axis_values, event, loop

fields == <<current_status, previous_status, status_start_time,
            last_walking_pattern_time, last_detected_side,
            one_foot_start_time, both_sides_zero_start_time, pre_jump_status>>

observed == <<left_avg, right_avg, current_time,
              jump_absence_status, flamingo_status, new_status, calls>>

history == <<one_foot_run_start, near_zero_run_start, last_alternation_time>>

actuator == <<output_type_arg, output_type, jump_button, gamepad, keyboard_jump_map,
              keys_down, left_joystick, right_joystick>>

reader == <<axis_values, event, loop>>

vars == <<fields, now, observed, history, actuator, effects, reader>>

\* the object's fields as one record, the `self` the methods work on
Self ==
    [current_status |-> current_status,
     previous_status |-> previous_status,
     status_start_time |-> status_start_time,
     last_walking_pattern_time |-> last_walking_pattern_time,
     last_detected_side |-> last_detected_side,
     one_foot_start_time |-> one_foot_start_time,
     both_sides_zero_start_time |-> both_sides_zero_start_time,
     pre_jump_status |-> pre_jump_status]

\* the actuator part of `self`
Actuator ==
    [output_type |-> output_type,
     jump_button |-> jump_button,
     gamepad |-> gamepad,
     keyboard_jump_map |-> keyboard_jump_map,
     keys_down |-> keys_down,
     left_joystick |-> left_joystick,
     right_joystick |-> right_joystick]

\* ------------------------------------------------------------ predicates
threshold_value == (Abs(max_val - min_val) * jump_absence_threshold_percent) \div 100

fifty_percent_threshold == min_val + ((max_val - min_val) \div 2)

\* variant of both_sides_near_zero: the distance is taken from the light end
\* of the range
both_sides_near_zero_from_max(l, r) ==
    /\ Abs(l - max_val) < threshold_value
    /\ Abs(r - max_val) < threshold_value

both_sides_near_zero(l, r) ==
    /\ Abs(l - min_val) < threshold_value
    /\ Abs(r - min_val) < threshold_value

one_foot_stance(l, r) ==
    LET left_above_50 == l > fifty_percent_threshold
        right_above_50 == r > fifty_percent_threshold
        left_below_50 == l < fifty_percent_threshold
        right_below_50 == r < fifty_percent_threshold
    IN  \/ (left_above_50 /\ right_below_50 /\ ~left_below_50 /\ ~right_above_50)
        \/ (right_above_50 /\ left_below_50 /\ ~right_below_50 /\ ~left_above_50)

\* the side detect_walking_pattern computes for a sample ("None": no tick)
current_side(l, r) ==
    IF l > fifty_percent_threshold /\ r < fifty_percent_threshold THEN "left"
    ELSE IF r > fifty_percent_threshold /\ l < fifty_percent_threshold THEN "right"
    ELSE "None"

\* --------------------------------------------------------------- methods
\* Each method is an operator from (self, arguments) to [ret, self]:
\* the value returned and the fields after the call.

\* variant of detect_jump_and_absence: an episode of exactly user_absent_time
\* still counts as a jump (<= for <)
detect_jump_and_absence_inclusive(self, l, r, t) ==
    IF both_sides_near_zero(l, r)
    THEN IF self.both_sides_zero_start_time = 0
         THEN [ret |-> "None",
               self |-> [self EXCEPT !.both_sides_zero_start_time = t,
                                     !.pre_jump_status = self.current_status]]
         ELSE IF /\ t - self.both_sides_zero_start_time >= user_absent_time
                 /\ self.current_status # "User Absent"
              THEN [ret |-> "User Absent", self |-> self]
              ELSE [ret |-> "None", self |-> self]
    ELSE IF self.both_sides_zero_start_time > 0
         THEN LET near_zero_duration == t - self.both_sides_zero_start_time
                  reset == [self EXCEPT !.both_sides_zero_start_time = 0]
              IN  IF near_zero_duration > 0 /\ near_zero_duration <= user_absent_time
                  THEN [ret |-> "Jump!", self |-> reset]
                  ELSE [ret |-> "None", self |-> reset]
         ELSE [ret |-> "None", self |-> self]

\* variant of detect_jump_and_absence: the near-zero timer is cleared only
\* when the episode is classified as a jump
detect_jump_and_absence_stale_timer(self, l, r, t) ==
    IF both_sides_near_zero(l, r)
    THEN IF self.both_sides_zero_start_time = 0
         THEN [ret |-> "None",
               self |-> [self EXCEPT !.both_sides_zero_start_time = t,
                                     !.pre_jump_status = self.current_status]]
         ELSE IF /\ t - self.both_sides_zero_start_time >= user_absent_time
                 /\ self.current_status # "User Absent"
              THEN [ret |-> "User Absent", self |-> self]
              ELSE [ret |-> "None", self |-> self]
    ELSE IF self.both_sides_zero_start_time > 0
         THEN LET near_zero_duration == t - self.both_sides_zero_start_time
                  reset == [self EXCEPT !.both_sides_zero_start_time = 0]
              IN  IF near_zero_duration > 0 /\ near_zero_duration < user_absent_time
                  THEN [ret |-> "Jump!", self |-> reset]
                  ELSE [ret |-> "None", self |-> self]
         ELSE [ret |-> "None", self |-> self]

\* variant of detect_jump_and_absence: a near-zero sample in the middle of an
\* episode restarts the timer
detect_jump_and_absence_refreshed(self, l, r, t) ==
    IF both_sides_near_zero(l, r)
    THEN IF self.both_sides_zero_start_time = 0
         THEN [ret |-> "None",
               self |-> [self EXCEPT !.both_sides_zero_start_time = t,
                                     !.pre_jump_status = self.current_status]]
         ELSE IF /\ t - self.both_sides_zero_start_time >= user_absent_time
                 /\ self.current_status # "User Absent"
              THEN [ret |-> "User Absent", self |-> self]
              ELSE [ret |-> "None",
                    self |-> [self EXCEPT !.both_sides_zero_start_time = t]]
    ELSE IF self.both_sides_zero_start_time > 0
         THEN LET near_zero_duration == t - self.both_sides_zero_start_time
                  reset == [self EXCEPT !.both_sides_zero_start_time = 0]
              IN  IF near_zero_duration > 0 /\ near_zero_duration < user_absent_time
                  THEN [ret |-> "Jump!", self |-> reset]
                  ELSE [ret |-> "None", self |-> reset]
         ELSE [ret |-> "None", self |-> self]

\* variant of detect_jump_and_absence: the near-zero timer is left set on the
\* sample classified as a jump
detect_jump_and_absence_keep_timer(self, l, r, t) ==
    IF both_sides_near_zero(l, r)
    THEN IF self.both_sides_zero_start_time = 0
         THEN [ret |-> "None",
               self |-> [self EXCEPT !.both_sides_zero_start_time = t,
                                     !.pre_jump_status = self.current_status]]
         ELSE IF /\ t - self.both_sides_zero_start_time >= user_absent_time
                 /\ self.current_status # "User Absent"
              THEN [ret |-> "User Absent", self |-> self]
              ELSE [ret |-> "None", self |-> self]
    ELSE IF self.both_sides_zero_start_time > 0
         THEN LET near_zero_duration == t - self.both_sides_zero_start_time
                  reset == [self EXCEPT !.both_sides_zero_start_time = 0]
              IN  IF near_zero_duration > 0 /\ near_zero_duration < user_absent_time
                  THEN [ret |-> "Jump!", self |-> self]
                  ELSE [ret |-> "None", self |-> reset]
         ELSE [ret |-> "None", self |-> self]

detect_jump_and_absence(self, l, r, t) ==
    IF both_sides_near_zero(l, r)
    THEN IF self.both_sides_zero_start_time = 0
         THEN [ret |-> "None",
               self |-> [self EXCEPT !.both_sides_zero_start_time = t,
                                     !.pre_jump_status = self.current_status]]
         ELSE IF /\ t - self.both_sides_zero_start_time >= user_absent_time
                 /\ self.current_status # "User Absent"
              THEN [ret |-> "User Absent", self |-> self]
              ELSE [ret |-> "None", self |-> self]
    ELSE IF self.both_sides_zero_start_time > 0
         THEN LET near_zero_duration == t - self.both_sides_zero_start_time
                  reset == [self EXCEPT !.both_sides_zero_start_time = 0]
              IN  IF near_zero_duration > 0 /\ near_zero_duration < user_absent_time
                  THEN [ret |-> "Jump!", self |-> reset]
                  ELSE [ret |-> "None", self |-> reset]
         ELSE [ret |-> "None", self |-> self]

\* variant of detect_flamingo_stance: a broken stance does not clear the timer
detect_flamingo_stance_no_reset(self, l, r, t) ==
    IF one_foot_stance(l, r)
    THEN IF self.one_foot_start_time = 0
         THEN [ret |-> "None", self |-> [self EXCEPT !.one_foot_start_time = t]]
         ELSE IF t - self.one_foot_start_time >= flamingo_hold_time
              THEN [ret |-> "Flamingo-ing", self |-> self]
              ELSE [ret |-> "None", self |-> self]
    ELSE [ret |-> "None", self |-> self]

detect_flamingo_stance(self, l, r, t) ==
    IF one_foot_stance(l, r)
    THEN IF self.one_foot_start_time = 0
         THEN [ret |-> "None", self |-> [self EXCEPT !.one_foot_start_time = t]]
         ELSE IF t - self.one_foot_start_time >= flamingo_hold_time
              THEN [ret |-> "Flamingo-ing", self |-> self]
              ELSE [ret |-> "None", self |-> self]
    ELSE [ret |-> "None", self |-> [self EXCEPT !.one_foot_start_time = 0]]

\* variant of detect_walking_pattern: the first detection is recorded but
\* only an alternation counts as walking
detect_walking_pattern_needs_alternation(self, l, r, t) ==
    LET side == current_side(l, r)
        accepted == [self EXCEPT !.last_walking_pattern_time = t,
                                 !.last_detected_side = side]
    IN  IF side # "None"
        THEN IF self.last_detected_side # "None" /\ side # self.last_detected_side
             THEN [ret |-> "Walking", self |-> accepted]
             ELSE IF self.last_detected_side = "None"
                  THEN [ret |-> "None", self |-> accepted]
                  ELSE [ret |-> "Walking", self |-> self]
        ELSE [ret |-> "None", self |-> [self EXCEPT !.last_detected_side = "None"]]

\* variant of detect_walking_pattern: a tick on the recorded side also
\* refreshes last_walking_pattern_time
detect_walking_pattern_refresh_same_side(self, l, r, t) ==
    LET side == current_side(l, r)
        accepted == [self EXCEPT !.last_walking_pattern_time = t,
                                 !.last_detected_side = side]
    IN  IF side # "None"
        THEN [ret |-> "Walking", self |-> accepted]
        ELSE [ret |-> "None", self |-> [self EXCEPT !.last_detected_side = "None"]]

detect_walking_pattern(self, l, r, t) ==
    LET side == current_side(l, r)
        accepted == [self EXCEPT !.last_walking_pattern_time = t,
                                 !.last_detected_side = side]
    IN  IF side # "None"
        THEN IF self.last_detected_side # "None" /\ side # self.last_detected_side
             THEN [ret |-> "Walking", self |-> accepted]
             ELSE IF self.last_detected_side = "None"
                  THEN [ret |-> "Walking", self |-> accepted]
                  ELSE [ret |-> "Walking", self |-> self]
        ELSE [ret |-> "None", self |-> [self EXCEPT !.last_detected_side = "None"]]

\* variant of walking_persists: the hold time itself no longer counts
walking_persists_strict(self, t) ==
    /\ self.current_status = "Walking"
    /\ t - self.last_walking_pattern_time < walking_hold_time

\* variant of walking_persists: the hold time is not checked
walking_persists_unbounded(self, t) ==
    self.current_status = "Walking"

\* Priority 4: the Walking status persists while the last accepted tick is
\* recent enough
walking_persists(self, t) ==
    /\ self.current_status = "Walking"
    /\ t - self.last_walking_pattern_time <= walking_hold_time

\* variant of determine_status: all three detectors are called before the
\* priorities are decided, so the lower-priority fields are updated even when
\* Priority 1 produces the result
determine_status_eager(self, l, r, t) ==
    LET j == detect_jump_and_absence(self, l, r, t)
        f == detect_flamingo_stance(j.self, l, r, t)
        w == detect_walking_pattern(f.self, l, r, t)
    IN  IF j.ret # "None"
        THEN IF j.ret = "Jump!"
             THEN IF w.self.current_status # "Jump!"
                  THEN [ret |-> "Jump!", p1 |-> j.ret, p2 |-> f.ret,
                        self |-> [w.self EXCEPT !.status_start_time = t]]
                  ELSE IF t - w.self.status_start_time >= jump_display_time
                       THEN [ret |-> w.self.pre_jump_status, p1 |-> j.ret,
                             p2 |-> f.ret, self |-> w.self]
                       ELSE [ret |-> "Jump!", p1 |-> j.ret, p2 |-> f.ret,
                             self |-> w.self]
             ELSE [ret |-> "User Absent", p1 |-> j.ret, p2 |-> f.ret,
                   self |-> w.self]
        ELSE IF f.ret # "None"
             THEN [ret |-> f.ret, p1 |-> j.ret, p2 |-> f.ret, self |-> f.self]
             ELSE IF w.ret # "None"
                  THEN [ret |-> w.ret, p1 |-> j.ret, p2 |-> f.ret, self |-> w.self]
                  ELSE IF walking_persists(w.self, t)
                       THEN [ret |-> "Walking", p1 |-> j.ret, p2 |-> f.ret,
                             self |-> w.self]
                       ELSE [ret |-> "Standing", p1 |-> j.ret, p2 |-> f.ret,
                             self |-> w.self]

\* variant of determine_status: the Walking rule is consulted before the
\* Flamingo rule
determine_status_walking_first(self, l, r, t) ==
    LET j == detect_jump_and_absence(self, l, r, t)
        w == detect_walking_pattern(j.self, l, r, t)
        f == detect_flamingo_stance(w.self, l, r, t)
    IN  IF j.ret # "None"
        THEN IF j.ret = "Jump!"
             THEN IF j.self.current_status # "Jump!"
                  THEN [ret |-> "Jump!", p1 |-> j.ret, p2 |-> "Skipped",
                        self |-> [j.self EXCEPT !.status_start_time = t]]
                  ELSE IF t - j.self.status_start_time >= jump_display_time
                       THEN [ret |-> j.self.pre_jump_status, p1 |-> j.ret,
                             p2 |-> "Skipped", self |-> j.self]
                       ELSE [ret |-> "Jump!", p1 |-> j.ret, p2 |-> "Skipped",
                             self |-> j.self]
             ELSE [ret |-> "User Absent", p1 |-> j.ret, p2 |-> "Skipped",
                   self |-> j.self]
        ELSE IF w.ret # "None"
             THEN [ret |-> w.ret, p1 |-> j.ret, p2 |-> "Skipped", self |-> w.self]
             ELSE IF f.ret # "None"
                  THEN [ret |-> f.ret, p1 |-> j.ret, p2 |-> f.ret, self |-> f.self]
                  ELSE IF walking_persists(f.self, t)
                       THEN [ret |-> "Walking", p1 |-> j.ret, p2 |-> f.ret,
                             self |-> f.self]
                       ELSE [ret |-> "Standing", p1 |-> j.ret, p2 |-> f.ret,
                             self |-> f.self]

\* determine_status also reports what Priority 1 (p1) and Priority 2 (p2)
\* returned; p2 is "Skipped" when detect_flamingo_stance was not called.
determine_status(self, l, r, t) ==
    LET j == detect_jump_and_absence(self, l, r, t)
        f == detect_flamingo_stance(j.self, l, r, t)
        w == detect_walking_pattern(f.self, l, r, t)
    IN  IF j.ret # "None"
        THEN IF j.ret = "Jump!"
             THEN IF j.self.current_status # "Jump!"
                  THEN [ret |-> "Jump!", p1 |-> j.ret, p2 |-> "Skipped",
                        self |-> [j.self EXCEPT !.status_start_time = t]]
                  ELSE IF t - j.self.status_start_time >= jump_display_time
                       THEN [ret |-> j.self.pre_jump_status, p1 |-> j.ret,
                             p2 |-> "Skipped", self |-> j.self]
                       ELSE [ret |-> "Jump!", p1 |-> j.ret, p2 |-> "Skipped",
                             self |-> j.self]
             ELSE [ret |-> "User Absent", p1 |-> j.ret, p2 |-> "Skipped",
                   self |-> j.self]
        ELSE IF f.ret # "None"
             THEN [ret |-> f.ret, p1 |-> j.ret, p2 |-> f.ret, self |-> f.self]
             ELSE IF w.ret # "None"
                  THEN [ret |-> w.ret, p1 |-> j.ret, p2 |-> f.ret, self |-> w.self]
                  ELSE IF walking_persists(w.self, t)
                       THEN [ret |-> "Walking", p1 |-> j.ret, p2 |-> f.ret,
                             self |-> w.self]
                       ELSE [ret |-> "Standing", p1 |-> j.ret, p2 |-> f.ret,
                             self |-> w.self]

\* the callback call_status_callback dispatches to
call_status_callback(status) ==
    CASE status = "Standing" -> <<"on_status_standing">>
      [] status = "Walking" -> <<"on_status_walking">>
      [] status = "Flamingo-ing" -> <<"on_status_flamingo">>
      [] status = "Jump!" -> <<"on_status_jump">>
      [] status = "User Absent" -> <<"on_status_user_absent">>
      [] OTHER -> <<>>

\* variant of update_status: the callback is invoked on every sample, changed
\* status or not
update_status_every_sample(self, l, r, t, t2) ==
    LET d == determine_status(self, l, r, t)
    IN  IF d.ret # d.self.current_status
        THEN [d EXCEPT !.self = [d.self EXCEPT !.previous_status = d.self.current_status,
                                               !.current_status = d.ret,
                                               !.status_start_time = t2]]
             @@ [calls |-> call_status_callback(d.ret)]
        ELSE d @@ [calls |-> call_status_callback(d.ret)]

\* t is the clock read by determine_status, t2 the one read at line 332
update_status(self, l, r, t, t2) ==
    LET d == determine_status(self, l, r, t)
    IN  IF d.ret # d.self.current_status
        THEN [d EXCEPT !.self = [d.self EXCEPT !.previous_status = d.self.current_status,
                                               !.current_status = d.ret,
                                               !.status_start_time = t2]]
             @@ [calls |-> call_status_callback(d.ret)]
        ELSE d @@ [calls |-> <<>>]

\* -------------------------------------------------------------- actuator
\* Each callback is an operator from (the actuator part of self, whether the
\* backend call fails) to [act, effects, slept]: the actuator afterwards, the
\* backend operations performed, and the time slept inside the callback.

\* the exceptions a callback can end with
Raises == {"raise AttributeError", "raise Exception"}

\* time.sleep(0.1) between press and release of the gamepad button
jump_press_time == 10

\* the keys of button_map and keyboard_jump_map
ButtonNames == {"A", "B", "X", "Y"}

\* keyboard_jump_map.get(jump_button, 'space')
keyboard_jump_key(button) ==
    CASE button = "A" -> "space"
      [] button = "B" -> "b"
      [] button = "X" -> "x"
      [] button = "Y" -> "y"
      [] OTHER -> "space"

backend_failure(act) ==
    [act |-> act, effects |-> <<"raise Exception">>, slept |-> 0]

on_status_standing(act, fails) ==
    IF act.output_type = "keyboard"
    THEN IF fails THEN backend_failure(act)
         ELSE [act |-> [act EXCEPT !.keys_down = @ \ {"w"}],
               effects |-> <<"keyUp w">>, slept |-> 0]
    ELSE IF act.gamepad
         THEN IF fails THEN backend_failure(act)
              ELSE [act |-> [act EXCEPT !.left_joystick = <<0, 0>>],
                    effects |-> <<"left_joystick 0 0", "update">>, slept |-> 0]
         ELSE [act |-> act, effects |-> <<>>, slept |-> 0]

on_status_walking(act, fails) ==
    IF act.output_type = "keyboard"
    THEN IF fails THEN backend_failure(act)
         ELSE [act |-> [act EXCEPT !.keys_down = @ \cup {"w"}],
               effects |-> <<"keyDown w">>, slept |-> 0]
    ELSE IF act.gamepad
         THEN IF fails THEN backend_failure(act)
              ELSE [act |-> [act EXCEPT !.left_joystick = <<0, -32767>>],
                    effects |-> <<"left_joystick 0 -32767", "update">>, slept |-> 0]
         ELSE [act |-> act, effects |-> <<>>, slept |-> 0]

on_status_flamingo(act, fails) ==
    IF act.output_type = "keyboard"
    THEN IF fails THEN backend_failure(act)
         ELSE [act |-> [act EXCEPT !.keys_down = @ \ {"w"}],
               effects |-> <<"keyUp w">>, slept |-> 0]
    ELSE IF act.gamepad
         THEN IF fails THEN backend_failure(act)
              ELSE [act |-> [act EXCEPT !.right_joystick = <<0, 0>>],
                    effects |-> <<"right_joystick 0 0", "update">>, slept |-> 0]
         ELSE [act |-> act, effects |-> <<>>, slept |-> 0]

\* pyautogui.press is keyDown followed by keyUp; the gamepad button is
\* pressed, held for jump_press_time and released
on_status_jump(act, fails) ==
    IF act.output_type = "keyboard"
    THEN IF ~act.keyboard_jump_map
         THEN [act |-> act, effects |-> <<"raise AttributeError">>, slept |-> 0]
         ELSE IF fails THEN backend_failure(act)
              ELSE [act |-> [act EXCEPT !.keys_down =
                                @ \ {keyboard_jump_key(act.jump_button)}],
                    effects |-> <<"press " \o keyboard_jump_key(act.jump_button)>>,
                    slept |-> 0]
    ELSE IF act.gamepad /\ act.jump_button \in ButtonNames
         THEN IF fails THEN backend_failure(act)
              ELSE [act |-> act,
                    effects |-> <<"press_button " \o act.jump_button, "update",
                                  "release_button " \o act.jump_button, "update">>,
                    slept |-> jump_press_time]
         ELSE [act |-> act, effects |-> <<>>, slept |-> 0]

on_status_user_absent(act, fails) ==
    [act |-> act, effects |-> <<>>, slept |-> 0]

\* the body of the callback that call_status_callback named
invoke_callback(name, act, fails) ==
    CASE name = "on_status_standing" -> on_status_standing(act, fails)
      [] name = "on_status_walking" -> on_status_walking(act, fails)
      [] name = "on_status_flamingo" -> on_status_flamingo(act, fails)
      [] name = "on_status_jump" -> on_status_jump(act, fails)
      [] name = "on_status_user_absent" -> on_status_user_absent(act, fails)

run_callbacks(names, act, fails) ==
    IF names = <<>>
    THEN [act |-> act, effects |-> <<>>, slept |-> 0]
    ELSE invoke_callback(names[1], act, fails)

\* gamepad.reset() followed by gamepad.update()
gamepad_reset(act) ==
    [act EXCEPT !.left_joystick = <<0, 0>>, !.right_joystick = <<0, 0>>]

\* ---------------------------------------------------------------- reader
axis_count == 4

\* raw axis values of the joystick events: full load, light load
RawLevels == {-32767, -28835}

\* value / 32767.0, in units of 1e-4 (rounded to the nearest)
normalized_value(value) == (value * 20000 + 32767) \div 65534

\* the 8-byte records read: struct 'IhBB' without the timestamp, of type
\* axis (0x02) or initial axis state (0x82); a short read has nothing to
\* unpack
ShortRead == [len |-> 4, type |-> 0, number |-> 0, value |-> 0]

Events ==
    [len : {8}, type : {2, 130}, number : 0..axis_count, value : RawLevels]
        \cup {ShortRead}

\* what is kept of a record for inspection
Header(ev) == [len |-> ev.len, type |-> ev.type, number |-> ev.number]

NoEvent == [len |-> 0, type |-> 0, number |-> 0]

\* variant of accepts_event: the record type is not checked
accepts_event_any_type(ev) ==
    /\ ev.len = 8
    /\ ev.number < axis_count

\* the conditions of lines 453 and 456
accepts_event(ev) ==
    /\ ev.len = 8
    /\ ev.type = 2
    /\ ev.number < axis_count

\* the side means print_axes computes
right_avg_of(axes) == (axes[0] + axes[1]) \div 2

left_avg_of(axes) == (axes[2] + axes[3]) \div 2

\* ---------------------------------------------------------------- system
OutputTypes == {"keyboard", "virtual_joystick"}

\* the jump bindings the constructor is given
JumpButtons == {"A", "Y"}

\* __init__(output_type = arg, jump_button = button); found: whether
\* `import vgamepad` succeeds
Constructed(arg, button, found) ==
    /\ current_status = "Standing"
    /\ previous_status = "Standing"
    /\ now = 1
    /\ status_start_time = 1
    /\ last_walking_pattern_time = 0
    /\ last_detected_side = "None"
    /\ one_foot_start_time = 0
    /\ both_sides_zero_start_time = 0
    /\ pre_jump_status = "Standing"
    /\ left_avg = 0
    /\ right_avg = 0
    /\ current_time = 0
    /\ jump_absence_status = "None"
    /\ flamingo_status = "None"
    /\ new_status = "Standing"
    /\ calls = <<>>
    /\ one_foot_run_start = 0
    /\ near_zero_run_start = 0
    /\ last_alternation_time = 0
    /\ output_type_arg = arg
    /\ jump_button = button
    /\ output_type = IF arg = "virtual_joystick" /\ ~found THEN "keyboard" ELSE arg
    /\ gamepad = (arg = "virtual_joystick" /\ found)
    /\ keyboard_jump_map = (arg # "virtual_joystick" \/ found)
    /\ keys_down = {}
    /\ left_joystick = <<0, 0>>
    /\ right_joystick = <<0, 0>>
    /\ effects = <<>>
    /\ axis_values = [i \in 0..(axis_count - 1) |-> 0]
    /\ event = NoEvent
    /\ loop = "created"

\* the reader constructed with the default arguments
Init == Constructed("keyboard", "A", TRUE)

\* the reader main() constructs
MainInit ==
    \E arg \in OutputTypes, button \in JumpButtons, found \in BOOLEAN :
        Constructed(arg, button, found)

\* what update_status(l, r) does when its clock reads are t and t2: the
\* result of update_status and of the callback it invoked
outcome(l, r, t, t2, fails) ==
    LET u == update_status(Self, l, r, t, t2)
    IN  [u |-> u, a |-> run_callbacks(u.calls, Actuator, fails)]

\* the fields, and the record of the sample, after update_status(l, r)
Sampled(l, r, t, t2, o) ==
    /\ now' = t2 + o.a.slept
    /\ current_status' = o.u.self.current_status
    /\ previous_status' = o.u.self.previous_status
    /\ status_start_time' = o.u.self.status_start_time
    /\ last_walking_pattern_time' = o.u.self.last_walking_pattern_time
    /\ last_detected_side' = o.u.self.last_detected_side
    /\ one_foot_start_time' = o.u.self.one_foot_start_time
    /\ both_sides_zero_start_time' = o.u.self.both_sides_zero_start_time
    /\ pre_jump_status' = o.u.self.pre_jump_status
    /\ jump_absence_status' = o.u.p1
    /\ flamingo_status' = o.u.p2
    /\ new_status' = o.u.ret
    /\ calls' = o.u.calls
    /\ left_avg' = l
    /\ right_avg' = r
    /\ current_time' = t
    /\ one_foot_run_start' =
          IF one_foot_stance(l, r)
          THEN (IF one_foot_run_start = 0 THEN t ELSE one_foot_run_start)
          ELSE 0
    /\ near_zero_run_start' =
          IF both_sides_near_zero(l, r)
          THEN (IF near_zero_run_start = 0 THEN t ELSE near_zero_run_start)
          ELSE 0
    /\ last_alternation_time' =
          IF current_side(l, r) # "None" /\ current_side(l, r) # last_detected_side
          THEN t ELSE last_alternation_time

\* the synthetic inputs become those of act; the configuration stays
ActuatorBecomes(act) ==
    /\ keys_down' = act.keys_down
    /\ left_joystick' = act.left_joystick
    /\ right_joystick' = act.right_joystick
    /\ UNCHANGED <<output_type_arg, output_type, jump_button, gamepad, keyboard_jump_map>>

\* One sample: update_status(l, r) called dt after the previous clock read,
\* its second clock read lag later.
UpdateStatus(l, r, dt, lag) ==
    LET t == now + dt
        t2 == t + lag
    IN  /\ t2 <= MaxTime * ClockStep
        /\ \E o \in {outcome(l, r, t, t2, FALSE)} :
              /\ Sampled(l, r, t, t2, o)
              /\ ActuatorBecomes(o.a.act)
              /\ effects' = o.a.effects
        /\ UNCHANGED reader

ClockSteps(n) == {k * ClockStep : k \in 0..n}

Next == \E l \in Levels, r \in Levels, dt \in ClockSteps(MaxDt), lag \in ClockSteps(MaxLag) :
            UpdateStatus(l, r, dt, lag)

Spec == Init /\ [][Next]_vars

\* 20 ms: the sample period of a 50 Hz device
SamplePeriod == ClockStep \div 25

\* side means of a foot off the board and of a foot on it
SampledLevels == {-9990, -8800}

\* the reader fed one sample every SamplePeriod, for MaxSamples samples
SampledNext ==
    /\ now < 1 + MaxSamples * SamplePeriod
    /\ \E l \in SampledLevels, r \in SampledLevels :
          UpdateStatus(l, r, SamplePeriod, 0)

SampledSpec == Init /\ [][SampledNext]_vars

\* Standing -> Walking -> Standing: 100 samples with both feet on the board,
\* 20 samples alternating (-0.88, -0.95) and (-0.95, -0.88), 40 samples with
\* both feet on the board
StandingSamples == 100
WalkingSamples == StandingSamples + 20
ScenarioSamples == WalkingSamples + 40

\* the side means <<left, right>> of the k-th sample of the scenario
ScenarioInput(k) ==
    IF k > StandingSamples /\ k <= WalkingSamples
    THEN (IF k % 2 = 1 THEN <<-8800, -9500>> ELSE <<-9500, -8800>>)
    ELSE <<-8800, -8800>>

\* number of samples taken when every sample comes SamplePeriod after the
\* previous one
SampleNo == (now - 1) \div SamplePeriod

\* the reader fed the next sample of the scenario
ScenarioNext ==
    /\ SampleNo < ScenarioSamples
    /\ UpdateStatus(ScenarioInput(SampleNo + 1)[1], ScenarioInput(SampleNo + 1)[2],
                    SamplePeriod, 0)

ScenarioSpec == Init /\ [][ScenarioNext]_vars

\* how much longer an absence takes to confirm than Walking takes to decay
AbsenceMargin == user_absent_time - walking_hold_time

\* clock advances between two samples that are shorter than AbsenceMargin
FrequentSteps == {0, AbsenceMargin \div 2, AbsenceMargin - 1}

\* the reader fed samples that follow one another in less than AbsenceMargin
FrequentNext ==
    \E l \in Levels, r \in Levels, dt \in FrequentSteps :
        /\ now + dt <= 1 + MaxFrequentTime * AbsenceMargin
        /\ UpdateStatus(l, r, dt, 0)

FrequentSpec == Init /\ [][FrequentNext]_vars

\* side means around the near-zero threshold: 0.0074 and 0.0076 from min_val
BoundaryLevels == {-9926, -9924, -8800}

BoundaryNext ==
    \E l \in BoundaryLevels, r \in BoundaryLevels,
       dt \in ClockSteps(MaxDt), lag \in ClockSteps(MaxLag) :
            UpdateStatus(l, r, dt, lag)

\* update_status driven with side means at the near-zero threshold
BoundarySpec == Init /\ [][BoundaryNext]_vars

\* ------------------------------------------------------------- read loop
\* last clock value an axis event may be handled at, in steps of ClockStep
MaxLoopTime == 2

\* open(device_path): the loop is entered, or the device is missing or not
\* readable and read_gamepad returns
OpenDevice(result) ==
    /\ loop = "created"
    /\ loop' = IF result = "ok" THEN "running" ELSE "failed"
    /\ UNCHANGED <<fields, now, observed, history, actuator, effects, axis_values, event>>

\* an axis event: the axis is stored and print_axes runs update_status on the
\* side means; an exception of a callback leaves the loop through the handler
\* of line 479, which resets the virtual gamepad
AxisEvent(ev, dt, lag, fails) ==
    LET t == now + dt
        t2 == t + lag
        axes == [axis_values EXCEPT ![ev.number] = normalized_value(ev.value)]
    IN  /\ loop = "running"
        /\ accepts_event(ev)
        /\ t2 <= MaxLoopTime * ClockStep
        /\ event' = Header(ev)
        /\ axis_values' = axes
        /\ \E o \in {outcome(left_avg_of(axes), right_avg_of(axes), t, t2, fails)} :
              /\ Sampled(left_avg_of(axes), right_avg_of(axes), t, t2, o)
              /\ IF \E i \in 1..Len(o.a.effects) : o.a.effects[i] \in Raises
                 THEN /\ loop' = "failed"
                      /\ IF gamepad
                         THEN /\ ActuatorBecomes(gamepad_reset(o.a.act))
                              /\ effects' = o.a.effects \o <<"reset", "update">>
                         ELSE /\ ActuatorBecomes(o.a.act)
                              /\ effects' = o.a.effects
                 ELSE /\ loop' = "running"
                      /\ ActuatorBecomes(o.a.act)
                      /\ effects' = o.a.effects

\* any other record is read and dropped
SkipEvent(ev) ==
    /\ loop = "running"
    /\ ~accepts_event(ev)
    /\ event' = Header(ev)
    /\ calls' = <<>>
    /\ effects' = <<>>
    /\ UNCHANGED <<fields, now, left_avg, right_avg, current_time,
                   jump_absence_status, flamingo_status, new_status,
                   history, actuator, axis_values, loop>>

\* BlockingIOError: nothing to read, the loop sleeps 10 ms and retries
NoData ==
    /\ loop = "running"
    /\ event' = NoEvent
    /\ calls' = <<>>
    /\ effects' = <<>>
    /\ UNCHANGED <<fields, now, left_avg, right_avg, current_time,
                   jump_absence_status, flamingo_status, new_status,
                   history, actuator, axis_values, loop>>

\* KeyboardInterrupt between two reads: the handler of line 473
Interrupt ==
    /\ loop = "running"
    /\ loop' = "interrupted"
    /\ calls' = <<>>
    /\ IF gamepad
       THEN /\ ActuatorBecomes(gamepad_reset(Actuator))
            /\ effects' = <<"reset", "update">>
       ELSE /\ UNCHANGED actuator
            /\ effects' = <<>>
    /\ UNCHANGED <<fields, now, left_avg, right_avg, current_time,
                   jump_absence_status, flamingo_status, new_status,
                   history, axis_values, event>>

LoopNext ==
    \/ \E result \in {"ok", "FileNotFoundError", "PermissionError"} : OpenDevice(result)
    \/ \E ev \in Events, dt \in ClockSteps(1), fails \in BOOLEAN :
          AxisEvent(ev, dt, 0, fails)
    \/ \E ev \in Events : SkipEvent(ev)
    \/ NoData
    \/ Interrupt

\* main(): the reader is constructed and read_gamepad runs
LoopSpec == MainInit /\ [][LoopNext]_vars

TypeOK ==
    /\ current_status \in Statuses
    /\ previous_status \in Statuses
    /\ pre_jump_status \in Statuses
    /\ new_status \in Statuses
    /\ last_detected_side \in {"None", "left", "right"}
    /\ now \in 1..(MaxTime * ClockStep + jump_press_time)
    /\ Len(calls) <= 1
    /\ output_type \in OutputTypes
    /\ keys_down \subseteq {"w"}
    /\ loop \in {"created", "running", "interrupted", "failed"}

\* ---------------------------------------------------------------- claims
\* the actuator binding of each posture (binding table of the dispatcher)
BindingOf(P) ==
    CASE P = "Standing" -> "on_status_standing"
      [] P = "Walking" -> "on_status_walking"
      [] P = "Flamingo-ing" -> "on_status_flamingo"
      [] P = "Jump!" -> "on_status_jump"
      [] P = "User Absent" -> "on_status_user_absent"

\* the sample of this step is an alternating tick: a tick on the side
\* opposite to the recorded one
AlternatingTick ==
    /\ current_side(left_avg', right_avg') # "None"
    /\ last_detected_side # "None"
    /\ current_side(left_avg', right_avg') # last_detected_side

\* C1: on every sample, the binding of the newly determined posture is
\* invoked exactly once when that posture differs from current_posture, it is
\* the binding of the new current_posture, and nothing is invoked when the
\* determined posture equals current_posture.
C1_ExactlyOnceTransition ==
    [][/\ new_status' # current_status =>
            /\ current_status' = new_status'
            /\ calls' = <<BindingOf(current_status')>>
       /\ new_status' = current_status =>
            /\ current_status' = current_status
            /\ calls' = <<>>]_vars

C1_Witness ==
    /\ current_status = "Walking"
    /\ previous_status = "Standing"
    /\ calls = <<"on_status_walking">>

\* C2 (as claimed): while current_posture is Jump and less than
\* jump_display_time has passed since it was adopted, every sample reports
\* Jump and invokes no binding.
C2_JumpSticky ==
    [][(/\ current_status = "Jump!"
        /\ current_time' - status_start_time < jump_display_time)
       => (new_status' = "Jump!" /\ calls' = <<>>)]_vars

\* C3: Priority 1 yields Jump exactly on the samples that are not near-zero,
\* find the near-zero timer set, and come more than 0 and less than
\* user_absent_time after it; Jump is never reported on a near-zero sample,
\* nor at the end of an episode of user_absent_time or more.
C3_JumpRule ==
    [][LET near == both_sides_near_zero(left_avg', right_avg')
           timer == both_sides_zero_start_time
           d == current_time' - both_sides_zero_start_time
       IN  /\ (jump_absence_status' = "Jump!") <=>
                  (~near /\ timer # 0 /\ 0 < d /\ d < user_absent_time)
           /\ near => new_status' # "Jump!"
           /\ (~near /\ timer # 0 /\ d >= user_absent_time) => new_status' # "Jump!"]_vars

C3_Witness ==
    /\ jump_absence_status = "Jump!"
    /\ new_status = "Jump!"
    /\ ~both_sides_near_zero(left_avg, right_avg)
    /\ both_sides_zero_start_time = 0

\* C4 (as claimed): within one uninterrupted near-zero episode, the posture
\* is UserAbsent from the sample at which the episode has lasted
\* user_absent_time, it stays UserAbsent on every later sample of the episode
\* with no further binding invoked, and no Jump is reported.
C4_AbsentOncePerEpisode ==
    [][(near_zero_run_start # 0 /\ both_sides_near_zero(left_avg', right_avg'))
       => /\ new_status' # "Jump!"
          /\ current_time' - near_zero_run_start >= user_absent_time
                => current_status' = "User Absent"
          /\ current_status = "User Absent"
                => (current_status' = "User Absent" /\ calls' = <<>>)]_vars

\* C5 (as claimed): on the sample that finds current_posture Jump with
\* jump_display_time or more elapsed since status_start_time, the posture
\* after the sample is the pre_jump_posture recorded for that Jump.
C5_JumpRestoration ==
    [][(/\ current_status = "Jump!"
        /\ current_time' - status_start_time >= jump_display_time)
       => current_status' = pre_jump_status]_vars

\* C6: FlamingoIng is reported only at the end of a run of consecutive
\* one-foot samples that spans at least flamingo_hold_time.
C6_FlamingoGate ==
    new_status = "Flamingo-ing" =>
        /\ one_foot_run_start # 0
        /\ current_time - one_foot_run_start >= flamingo_hold_time

C6_Witness ==
    /\ new_status = "Flamingo-ing"
    /\ calls = <<"on_status_flamingo">>
    /\ one_foot_stance(left_avg, right_avg)

\* C7: UserAbsent is reported only at the end of a run of consecutive
\* near-zero samples that spans at least user_absent_time.
C7_AbsentGate ==
    new_status = "User Absent" =>
        /\ near_zero_run_start # 0
        /\ current_time - near_zero_run_start >= user_absent_time

C7_Witness ==
    /\ new_status = "User Absent"
    /\ calls = <<"on_status_user_absent">>
    /\ both_sides_near_zero(left_avg, right_avg)

C9_AlternationResetsFlamingo ==
    [][AlternatingTick =>
          /\ new_status' # "Flamingo-ing"
          /\ one_foot_start_time' \in {0, current_time'}]_vars

\* C10: on a sample where Priority 1 yields Jump or UserAbsent, that is the
\* posture returned, and one_foot_start_time, last_detected_side and
\* last_walking_pattern_time keep their values.
C10_PriorityMonotonicity ==
    [][jump_absence_status' \in {"Jump!", "User Absent"} =>
          /\ new_status' = jump_absence_status'
          /\ one_foot_start_time' = one_foot_start_time
          /\ last_detected_side' = last_detected_side
          /\ last_walking_pattern_time' = last_walking_pattern_time]_vars

C10_Witness ==
    /\ jump_absence_status = "Jump!"
    /\ new_status = "Jump!"
    /\ one_foot_stance(left_avg, right_avg)
    /\ one_foot_start_time = 0
    /\ last_detected_side = "None"

\* the forward input on_status_walking engages is engaged: the key 'w' is
\* held, or the stick on_status_walking moves is off centre
ForwardEngaged == "w" \in keys_down \/ left_joystick # <<0, 0>>

\* a callback of the latest sample ended with an exception of the backend
BackendCallFailed == \E i \in 1..Len(effects) : effects[i] = "raise Exception"

\* virtual_joystick was asked for and the constructor fell back to keyboard
FellBackToKeyboard == output_type_arg = "virtual_joystick" /\ output_type = "keyboard"

\* C11 (as claimed): for both actuator variants, while no backend call has
\* failed, the forward input is not engaged in any state whose posture is
\* Standing or FlamingoIng.
C11_ForwardReleased ==
    (loop = "running" /\ current_status \in {"Standing", "Flamingo-ing"})
        => ~ForwardEngaged

\* C12 (as claimed): after a user interrupt has ended the loop, no synthetic
\* input is engaged, for either actuator variant and whatever the posture was.
C12_InterruptReleasesInputs ==
    loop = "interrupted" =>
        /\ keys_down = {}
        /\ left_joystick = <<0, 0>>
        /\ right_joystick = <<0, 0>>

\* C13 (as claimed): after the fallback to the keyboard actuator, a transition
\* to Jump taps the key of the configured binding (unless the backend fails)
\* and the loop keeps running.
C13_FallbackJumpTapsKey ==
    (FellBackToKeyboard /\ calls = <<"on_status_jump">> /\ ~BackendCallFailed)
        => /\ effects = <<"press " \o keyboard_jump_key(jump_button)>>
           /\ loop = "running"

\* C14 (as claimed): when an actuator call fails during a transition the
\* loop keeps running.
C14_FailureKeepsLoopRunning ==
    BackendCallFailed => loop = "running"

\* a record the loop must not consume: not 8 bytes, not an axis event (type
\* 0x02), or an axis number outside the axis vector
Malformed(header) ==
    header.len # 8 \/ header.type # 2 \/ header.number >= 4

\* C20: a read that yields a malformed record changes neither the axis
\* vector, nor any field of the detector, nor the synthetic inputs, runs no
\* update_status (no clock read, no sample) and invokes no binding.
C20_MalformedSkipped ==
    [][(loop = "running" /\ loop' = "running" /\ Malformed(event'))
       => /\ UNCHANGED <<axis_values, fields, keys_down, left_joystick, right_joystick>>
          /\ UNCHANGED <<now, current_time, left_avg, right_avg, history>>
          /\ calls' = <<>>
          /\ effects' = <<>>]_vars

C20_Witness ==
    /\ loop = "running"
    /\ event.len = 8
    /\ event.type = 130
    /\ event.number < 4
    /\ current_status = "Walking"
    /\ ForwardEngaged
    /\ calls = <<>>

\* C15 (as claimed): a sample whose side means are both -0.9926 is not
\* near-zero: it leaves no near-zero timer set.
C15_BoundaryNotNearZero ==
    [][(left_avg' = -9926 /\ right_avg' = -9926)
       => both_sides_zero_start_time' = 0]_vars

\* C15 (amended): a sample whose side means are both -0.9926 is near-zero
\* (0.0074 < 0.0075): it starts a near-zero episode, setting the timer to its
\* own time, when none is running, and continues the running one otherwise.
C15_BoundaryIsNearZero ==
    [][(left_avg' = -9926 /\ right_avg' = -9926)
       => both_sides_zero_start_time' =
             IF both_sides_zero_start_time = 0
             THEN current_time' ELSE both_sides_zero_start_time]_vars

C15_Witness ==
    /\ left_avg = -9926
    /\ right_avg = -9926
    /\ both_sides_zero_start_time # 0
    /\ current_time - both_sides_zero_start_time >= user_absent_time
    /\ current_status = "User Absent"

\* C19: on the sample that enters a new near-zero episode while the posture is
\* Jump!, pre_jump_status is left as it was; so pre_jump_status is never Jump!.
C19_PreJumpNeverJump == pre_jump_status # "Jump!"


\* the sample of this step is the first tick met in Standing with no side
\* recorded
FirstTick ==
    /\ current_status = "Standing"
    /\ last_detected_side = "None"
    /\ current_side(left_avg', right_avg') # "None"

\* what the first tick does: the one transition, to Walking, and its time and
\* side are recorded
FirstTickAccepted ==
    /\ current_status' = "Walking"
    /\ calls' = <<"on_status_walking">>
    /\ last_walking_pattern_time' = current_time'
    /\ last_detected_side' = current_side(left_avg', right_avg')

\* the sample of this step is a later tick of a run of consecutive ticks that
\* has spanned less than flamingo_hold_time and has reached Walking
LaterTick ==
    /\ one_foot_run_start # 0
    /\ current_side(left_avg', right_avg') # "None"
    /\ current_time' - one_foot_run_start < flamingo_hold_time
    /\ current_status = "Walking"
    /\ last_detected_side # "None"

\* what a later tick does: no transition; a tick on the recorded side leaves
\* the recorded time and side alone, a tick on the other side records its own
LaterTickAccepted ==
    /\ current_status' = "Walking"
    /\ calls' = <<>>
    /\ IF current_side(left_avg', right_avg') = last_detected_side
       THEN /\ last_walking_pattern_time' = last_walking_pattern_time
            /\ last_detected_side' = last_detected_side
       ELSE /\ last_walking_pattern_time' = current_time'
            /\ last_detected_side' = current_side(left_avg', right_avg')

\* C17 (as claimed): from Standing with no side recorded, consecutive ticks
\* spanning less than flamingo_hold_time make exactly one transition, to
\* Walking, on the first tick; ticks on the same side leave
\* last_walking_pattern_time as the first set it, and each tick of L, R, L, R
\* sets last_walking_pattern_time to its own time and last_detected_side to
\* its own side.
C17_AlternationIdentity ==
    [][/\ FirstTick => FirstTickAccepted
       /\ LaterTick => LaterTickAccepted]_vars

\* C17 (amended): the same, when no near-zero episode is pending at the first
\* tick (both_sides_zero_start_time = 0), so that Priority 1 does not decide
\* it.
C17_AlternationIdentityNoEpisode ==
    [][/\ (FirstTick /\ both_sides_zero_start_time = 0) => FirstTickAccepted
       /\ LaterTick => LaterTickAccepted]_vars

\* a run L, R, L has been sampled within flamingo_hold_time: the third tick
\* made no transition and recorded its own time and side
C17_Witness ==
    /\ current_status = "Walking"
    /\ calls = <<>>
    /\ one_foot_run_start # 0
    /\ current_time >= one_foot_run_start + 2 * SamplePeriod
    /\ current_time - one_foot_run_start < flamingo_hold_time
    /\ last_alternation_time = current_time
    /\ last_walking_pattern_time = current_time
    /\ last_detected_side = "left"
    /\ current_side(left_avg, right_avg) = "left"
    /\ status_start_time = one_foot_run_start
    /\ pre_jump_status = "Standing"


\* clock value of the first sample of SampledSpec
FirstSample == 1 + SamplePeriod

\* every sample since construction has held the same one-foot stance: the run
\* of one-foot samples began with the first sample and the side never changed
HeldFromStart ==
    /\ one_foot_run_start = FirstSample
    /\ last_alternation_time = one_foot_run_start

\* C18: when the same one-foot stance is held on every sample, the posture is
\* Standing or Walking on the samples taken before the stance has lasted
\* flamingo_hold_time and on_status_flamingo is not invoked on them; the first
\* sample at which it has lasted that long makes the posture Flamingo-ing and
\* invokes on_status_flamingo alone; every later sample of the stance keeps
\* Flamingo-ing and invokes nothing.
C18_HeldStance ==
    [][HeldFromStart' =>
          IF current_time' - one_foot_run_start' < flamingo_hold_time
          THEN /\ current_status' \in {"Standing", "Walking"}
               /\ calls' \in {<<>>, <<"on_status_walking">>}
          ELSE /\ current_status' = "Flamingo-ing"
               /\ calls' = IF current_status = "Flamingo-ing"
                           THEN <<>> ELSE <<"on_status_flamingo">>
               /\ (current_status # "Flamingo-ing") =
                     (current_time - one_foot_run_start < flamingo_hold_time)]_vars

C18_Witness ==
    /\ HeldFromStart
    /\ current_time - one_foot_run_start > flamingo_hold_time
    /\ current_status = "Flamingo-ing"
    /\ previous_status = "Walking"
    /\ calls = <<>>


\* C16: in the Standing -> Walking -> Standing scenario at 50 Hz, the 100
\* samples with both sides above the half threshold invoke nothing; the first
\* of the 20 alternating samples makes the posture Walking and invokes
\* on_status_walking alone, the other 19 keep Walking and invoke nothing;
\* afterwards the posture stays Walking, with nothing invoked, while the
\* sample comes at most walking_hold_time after the last alternating sample,
\* and the first later sample makes it Standing and invokes on_status_standing
\* alone, after which nothing is invoked; the scenario ends in Standing, so
\* its calls are on_status_walking, on_status_standing.
C16_StandWalkStand ==
    [][/\ SampleNo' <= StandingSamples =>
            /\ current_status' = "Standing"
            /\ calls' = <<>>
       /\ SampleNo' = StandingSamples + 1 =>
            /\ current_status' = "Walking"
            /\ calls' = <<"on_status_walking">>
       /\ (SampleNo' > StandingSamples + 1 /\ SampleNo' <= WalkingSamples) =>
            /\ current_status' = "Walking"
            /\ calls' = <<>>
            /\ last_walking_pattern_time' = current_time'
       /\ SampleNo' > WalkingSamples =>
            /\ last_walking_pattern_time' = last_walking_pattern_time
            /\ last_walking_pattern_time' = last_alternation_time'
            /\ IF current_time' - last_walking_pattern_time' <= walking_hold_time
               THEN /\ current_status' = "Walking"
                    /\ calls' = <<>>
               ELSE /\ current_status' = "Standing"
                    /\ calls' = IF current_status = "Walking"
                                THEN <<"on_status_standing">> ELSE <<>>
       /\ SampleNo' = ScenarioSamples =>
            /\ current_status' = "Standing"
            /\ previous_status' = "Walking"]_vars

\* the first sample of the scenario that comes more than walking_hold_time
\* after the last alternating sample
C16_Witness ==
    /\ SampleNo > WalkingSamples
    /\ left_avg = -8800
    /\ right_avg = -8800
    /\ last_walking_pattern_time = 1 + WalkingSamples * SamplePeriod
    /\ current_time - last_walking_pattern_time = walking_hold_time + SamplePeriod
    /\ current_status = "Standing"
    /\ previous_status = "Walking"
    /\ calls = <<"on_status_standing">>


C22_TimerTracksEpisode ==
    /\ (both_sides_zero_start_time # 0) = both_sides_near_zero(left_avg, right_avg)
    /\ both_sides_zero_start_time = near_zero_run_start

\* a later sample of a near-zero episode: the timer still holds the time of
\* the first one
C22_Witness ==
    /\ both_sides_near_zero(left_avg, right_avg)
    /\ both_sides_zero_start_time # 0
    /\ both_sides_zero_start_time = near_zero_run_start
    /\ current_time - both_sides_zero_start_time = ClockStep
    /\ jump_absence_status = "None"


\* C24: a sample that satisfies the one-foot predicate and is not decided by
\* Priority 1 yields Walking or Flamingo-ing, never Standing; when it arrives
\* in Standing it yields Walking, the posture becomes Walking and
\* on_status_walking is invoked.
C24_OneFootNeverStanding ==
    [][(one_foot_stance(left_avg', right_avg') /\ jump_absence_status' = "None") =>
          /\ new_status' \in {"Walking", "Flamingo-ing"}
          /\ current_status = "Standing" =>
                /\ new_status' = "Walking"
                /\ flamingo_status' = "None"
                /\ current_status' = "Walking"
                /\ calls' = <<"on_status_walking">>]_vars

\* a single one-foot sample has arrived in Standing: its one-foot timer has
\* just started and the posture is already Walking
C24_Witness ==
    /\ one_foot_stance(left_avg, right_avg)
    /\ jump_absence_status = "None"
    /\ flamingo_status = "None"
    /\ one_foot_start_time = current_time
    /\ one_foot_run_start = current_time
    /\ previous_status = "Standing"
    /\ current_status = "Walking"
    /\ calls = <<"on_status_walking">>


\* C23: when every sample follows the previous one in less than
\* user_absent_time - walking_hold_time, the posture never changes from
\* Walking to User Absent: the sample that makes it User Absent finds it
\* Standing, with the forward key released, and with the keyboard actuator
\* the forward key is never held while the posture is User Absent.
C23_WalkingDecaysBeforeAbsent ==
    [][/\ (new_status' = "User Absent" /\ current_status # "User Absent") =>
            /\ current_status = "Standing"
            /\ ~ForwardEngaged
            /\ calls' = <<"on_status_user_absent">>
       /\ current_status' = "User Absent" => "w" \notin keys_down']_vars

\* a near-zero episode entered from Walking has reached User Absent: Walking
\* had decayed to Standing earlier in the episode
C23_Witness ==
    /\ output_type = "keyboard"
    /\ current_status = "User Absent"
    /\ previous_status = "Standing"
    /\ pre_jump_status = "Walking"
    /\ both_sides_zero_start_time # 0
    /\ last_walking_pattern_time # 0
    /\ calls = <<"on_status_user_absent">>
    /\ "w" \notin keys_down

====
